---- MODULE Spec2Model ----
(***************************************************************************)
(* The squirrel metadata catalog (Database), its selections (Selection)    *)
(* and its temporal index (Squirrel), src/src/squirrel/squirrel.py.        *)
(*                                                                         *)
(* The SQLite tables are modelled by their rows.  A table without an       *)
(* INTEGER PRIMARY KEY has an implicit rowid, allocated as one more than   *)
(* the largest rowid in the table (1 for an empty table).  Times are       *)
(* counted in half seconds where a float time is split into seconds and a  *)
(* sub-second offset: an offset of 1 stands for 0.5 s.                     *)
(***************************************************************************)
EXTENDS Integers, Sequences, FiniteSets, TLC

VARIABLES
    files,        \* table files: rows [rowid, file_name, file_format, file_mtime]
    nuts,         \* table nuts: rows [file_id, file_segment, file_element, ...]
    kind_codes,   \* table kind_codes: kind_codes[rowid] = [kind, codes, count]
    need_commit,  \* Database._need_commit
    uncommitted,  \* writes of dig calls are in the open transaction of the connection
    selections,   \* Database.selections: the registered selections, by name
    temp_tables,  \* the temp tables that exist: <<name, "file_states">>, <<name, "nuts">>
    file_states,  \* rows of <name>_file_states: name -> <<[file_name, file_state]>>
    sq_nuts,      \* rows of <name>_nuts, the private table of a Squirrel: name -> rows
    icount,       \* the module-level counter behind make_unique_name
    lastOp,       \* the last call made on the program and what it returned
    dug,          \* history: file_name -> the nuts of the latest dig call naming it
    held,         \* history: the (rowid, file_name) pairs of all rows files has held
    dug_kind_codes, \* history: the (kind, codes) pairs of all nuts passed to dig
    dig_failed,   \* history: a dig call has raised
    lock,         \* the module-level threading.Lock: the thread holding it, or NoThread
    threads,      \* per thread: its position in Selection.__init__ and its locals
    issued        \* history: the names make_unique_name has returned, in order

vars == <<files, nuts, kind_codes, need_commit, uncommitted, selections,
          temp_tables,
          file_states, sq_nuts, icount, lastOp, dug, held, dug_kind_codes, dig_failed,
          lock, threads, issued>>

thread_vars == <<lock, threads, issued>>

selection_vars == <<selections, temp_tables, file_states, sq_nuts, icount>>

catalog == <<files, nuts, kind_codes>>

\* A file_format that is NULL in table files
NoneVal == "None"

STALE == 0
FRESH == 1
INDEXED == 2

(***************************************************************************)
(* Bounds of the model.                                                    *)
(***************************************************************************)
MaxDigLen == 2      \* nuts per dig call
MaxRowid == 3       \* dig is not called once files.rowid would exceed this
MaxIcount == 2      \* selections are not created once icount has reached this
MaxNames == 2       \* file names per add / get_mtimes / undig_many call
MaxScratch == 1     \* get_mtimes / undig_many calls that start a scratch selection

FileNames == {"a", "b"}

\* make_unique_name gives '<pid>_<icount>': within the process a name is its
\* icount.
SelectionNames == 0..(MaxIcount - 1)

\* The (file_name, file_format, file_mtime) identities nuts are dig'd with.
FileKeys == {<<"a", "mseed", 1>>, <<"a", "sac", 2>>, <<"b", "mseed", 1>>}

\* What a nut of a file is dig'd with: its (file_segment, file_element) and
\* its (kind, codes); the components of codes are joined by "." here.
Payloads == {<<<<0, 0>>, <<"waveform", "STA.BHZ">>>>,
             <<<<0, 1>>, <<"station", "STA">>>>}

Range(s) == {s[i] : i \in DOMAIN s}

SeqsUpTo(S, n) == UNION {[1..k -> S] : k \in 0..n}

Max(S) == CHOOSE x \in S : \A y \in S : y <= x

RECURSIVE DistinctSeq(_)
\* The elements of s in the order of their first occurrence (the key order
\* of a dict or Counter filled from s).
DistinctSeq(s) ==
    IF s = <<>> THEN <<>>
    ELSE <<Head(s)>> \o DistinctSeq(SelectSeq(Tail(s), LAMBDA x : x # Head(s)))

(***************************************************************************)
(* model.Nut: the duration ladder and the bucket of a nut.                 *)
(***************************************************************************)
tscale_edges == <<1, 3>>

\* Half seconds from (tmin_seconds, tmin_offset) to (tmax_seconds, tmax_offset).
Duration(tmin_seconds, tmin_offset, tmax_seconds, tmax_offset) ==
    2 * (tmax_seconds - tmin_seconds) + (tmax_offset - tmin_offset)

\* KscaleOf with a duration on an edge counted below the edge.
KscaleOfInclusive(duration) ==
    LET above == {k \in 1..Len(tscale_edges) : 2 * tscale_edges[k] >= duration}
    IN  IF above = {} THEN Len(tscale_edges)
        ELSE (CHOOSE k \in above : \A j \in above : k <= j) - 1

\* The smallest index (from 0) of an edge that exceeds the duration; the
\* number of edges when none does.
KscaleOf(duration) ==
    LET above == {k \in 1..Len(tscale_edges) : 2 * tscale_edges[k] > duration}
    IN  IF above = {} THEN Len(tscale_edges)
        ELSE (CHOOSE k \in above : \A j \in above : k <= j) - 1

NutKscale(n) ==
    KscaleOf(Duration(n.tmin_seconds, n.tmin_offset, n.tmax_seconds, n.tmax_offset))

\* A nut as the caller passes it to dig and as undig returns it.
MakeNut(key, slot, kc, span) ==
    [file_name |-> key[1], file_format |-> key[2], file_mtime |-> key[3],
     file_segment |-> slot[1], file_element |-> slot[2],
     kind |-> kc[1], codes |-> kc[2],
     tmin_seconds |-> span[1], tmin_offset |-> span[2],
     tmax_seconds |-> span[3], tmax_offset |-> span[4],
     deltat |-> 0]

(***************************************************************************)
(* Database.dig                                                            *)
(***************************************************************************)
NutKey(n) == <<n.file_name, n.file_format, n.file_mtime>>

NutKindCodes(n) == <<n.kind, n.codes>>

\* by_files: the keys in dict order, and the nuts of one key in input order.
ByFilesKeys(input) == DistinctSeq([i \in 1..Len(input) |-> NutKey(input[i])])

ByFiles(input, k) == SelectSeq(input, LAMBDA n : NutKey(n) = k)

\* count_kind_codes: its keys in Counter order, and the count of one key.
CountKeys(input) == DistinctSeq([i \in 1..Len(input) |-> NutKindCodes(input[i])])

CountOf(input, kc) == Len(SelectSeq(input, LAMBDA n : NutKindCodes(n) = kc))

KindCodesRowid(kcs, kc) ==
    CHOOSE i \in 1..Len(kcs) : kcs[i].kind = kc[1] /\ kcs[i].codes = kc[2]

HasKindCodes(kcs, kc) ==
    \E i \in 1..Len(kcs) : kcs[i].kind = kc[1] /\ kcs[i].codes = kc[2]

RECURSIVE InsertOrIgnoreKindCodes(_, _)
\* INSERT OR IGNORE INTO kind_codes VALUES (?,?,0), for each key in turn
InsertOrIgnoreKindCodes(kcs, keys) ==
    IF keys = <<>> THEN kcs
    ELSE InsertOrIgnoreKindCodes(
            IF HasKindCodes(kcs, Head(keys)) THEN kcs
            ELSE Append(kcs, [kind |-> Head(keys)[1], codes |-> Head(keys)[2],
                              count |-> 0]),
            Tail(keys))

\* UPDATE kind_codes SET count = count + ? WHERE kind == ? AND codes == ?
IncrementKindCodes(kcs, input) ==
    [i \in 1..Len(kcs) |->
        [kcs[i] EXCEPT !.count = @ + CountOf(input, <<kcs[i].kind, kcs[i].codes>>)]]

\* DecrementKindCodes with the trigger not firing for the rows that the
\* trigger delete_nuts deletes.
NoDecrementKindCodes(kcs, deleted) == kcs

\* Trigger decrement_kind_codes, once for each deleted nut row.
DecrementKindCodes(kcs, deleted) ==
    [i \in 1..Len(kcs) |->
        [kcs[i] EXCEPT
            !.count = @ - Cardinality({r \in deleted : r.kind_codes_id = i})]]

\* CascadeNuts without the trigger delete_nuts.
NoCascadeNuts(db, gone) == {}

\* Trigger delete_nuts: the nut rows that go with the file rows `gone`.
CascadeNuts(db, gone) ==
    {r \in db.nuts : \E f \in gone : r.file_id = f.rowid}

\* DeleteFile without its DELETE statement.
DeleteNoFile(db, file_name) == db

\* DeleteFile without its WHERE clause.
DeleteAllFiles(db, file_name) ==
    LET gone == db.files
        deleted == CascadeNuts(db, gone)
    IN  [db EXCEPT !.files = @ \ gone,
                   !.nuts = @ \ deleted,
                   !.kind_codes = DecrementKindCodes(@, deleted)]

\* DELETE FROM files WHERE file_name = ?, with both triggers.
DeleteFile(db, file_name) ==
    LET gone == {f \in db.files : f.file_name = file_name}
        deleted == CascadeNuts(db, gone)
    IN  [db EXCEPT !.files = @ \ gone,
                   !.nuts = @ \ deleted,
                   !.kind_codes = DecrementKindCodes(@, deleted)]

\* The rowid SQLite gives the next row of table files.
NextRowid(rows) == IF rows = {} THEN 1 ELSE Max({f.rowid : f \in rows}) + 1

NutRow(file_id, kcs, n) ==
    [file_id |-> file_id,
     file_segment |-> n.file_segment, file_element |-> n.file_element,
     kind_codes_id |-> KindCodesRowid(kcs, NutKindCodes(n)),
     tmin_seconds |-> n.tmin_seconds, tmin_offset |-> n.tmin_offset,
     tmax_seconds |-> n.tmax_seconds, tmax_offset |-> n.tmax_offset,
     deltat |-> n.deltat, kscale |-> NutKscale(n)]

SamePrimaryKey(r, q) ==
    /\ r.file_id = q.file_id
    /\ r.file_segment = q.file_segment
    /\ r.file_element = q.file_element

RECURSIVE InsertNuts(_, _, _)
\* executemany INSERT INTO nuts: one statement per nut; the first that breaks
\* PRIMARY KEY (file_id, file_segment, file_element) raises, and the rows of
\* the statements before it stay.
InsertNuts(db, file_id, file_nuts) ==
    IF file_nuts = <<>> THEN db
    ELSE LET row == NutRow(file_id, db.kind_codes, Head(file_nuts))
         IN  IF \E q \in db.nuts : SamePrimaryKey(row, q)
             THEN [db EXCEPT !.raised = TRUE]
             ELSE InsertNuts([db EXCEPT !.nuts = @ \cup {row}], file_id,
                             Tail(file_nuts))

\* INSERT INTO files VALUES (?,?,?); file_id = c.lastrowid; then its nuts.
InsertFile(d, file_id, k, file_nuts) ==
    InsertNuts([d EXCEPT !.files = @ \cup
                   {[rowid |-> file_id, file_name |-> k[1], file_format |-> k[2],
                     file_mtime |-> k[3]]}],
               file_id, file_nuts)

\* One turn of the loop over by_files: delete, insert the file row, insert
\* its nuts.
DigFile(db, k, file_nuts) ==
    LET d == DeleteFile(db, k[1])
    IN  InsertFile(d, NextRowid(d.files), k, file_nuts)

RECURSIVE DigFiles(_, _, _)
DigFiles(db, keys, input) ==
    IF keys = <<>> \/ db.raised THEN db
    ELSE DigFiles(DigFile(db, Head(keys), ByFiles(input, Head(keys))),
                  Tail(keys), input)

\* The tables after dig(input) on the tables db, and whether it raised.
DigResult(db, input) ==
    LET kcs == IncrementKindCodes(
                   InsertOrIgnoreKindCodes(db.kind_codes, CountKeys(input)), input)
    IN  DigFiles([db EXCEPT !.kind_codes = kcs], ByFilesKeys(input), input)

RECURSIVE HeldDuring(_, _, _)
\* history: the (rowid, file_name) pairs of the rows table files holds after
\* each turn of the loop over by_files (the rows of kind_codes are all
\* inserted before the loop; the loop changes only their counts)
HeldDuring(db, keys, input) ==
    IF keys = <<>> \/ db.raised THEN {<<f.rowid, f.file_name>> : f \in db.files}
    ELSE LET d == DigFile(db, Head(keys), ByFiles(input, Head(keys)))
         IN  {<<f.rowid, f.file_name>> : f \in d.files}
                 \cup HeldDuring(d, Tail(keys), input)

Tables == [files |-> files, nuts |-> nuts, kind_codes |-> kind_codes,
           raised |-> FALSE]

\* history: the nuts of the latest dig call that names each file
DugAfter(input) ==
    [F \in FileNames |->
        LET mine == {input[i] : i \in {j \in 1..Len(input) : input[j].file_name = F}}
        IN  IF mine = {} THEN dug[F] ELSE mine]

Dig(input) ==
    IF input = <<>>
    THEN /\ lastOp' = [op |-> "dig", ok |-> TRUE, replaced |-> FALSE]
         /\ UNCHANGED <<files, nuts, kind_codes, need_commit, uncommitted, selection_vars,
                        dug, held, dug_kind_codes, dig_failed, thread_vars>>
    ELSE \E db \in {DigResult(Tables, input)} :
             /\ \A f \in db.files : f.rowid <= MaxRowid
             /\ files' = db.files
             /\ nuts' = db.nuts
             /\ kind_codes' = db.kind_codes
             /\ need_commit' = IF db.raised THEN need_commit ELSE TRUE
             /\ uncommitted' = TRUE
             /\ dug' = DugAfter(input)
             /\ held' = held \cup HeldDuring([Tables EXCEPT !.kind_codes = db.kind_codes],
                                             ByFilesKeys(input), input)
             /\ dug_kind_codes' =
                    dug_kind_codes \cup {NutKindCodes(input[i]) : i \in 1..Len(input)}
             /\ dig_failed' = (dig_failed \/ db.raised)
             /\ lastOp' = [op |-> "dig", ok |-> ~db.raised,
                           replaced |-> \E i \in 1..Len(input) :
                               \E f \in files : f.file_name = input[i].file_name]
             /\ UNCHANGED <<selection_vars, thread_vars>>

(***************************************************************************)
(* Database.undig                                                          *)
(***************************************************************************)
\* One row of files JOIN nuts JOIN kind_codes, as model.Nut reads it.
JoinedNut(f, r, kcs) ==
    [file_name |-> f.file_name, file_format |-> f.file_format,
     file_mtime |-> f.file_mtime,
     file_segment |-> r.file_segment, file_element |-> r.file_element,
     kind |-> kcs[r.kind_codes_id].kind, codes |-> kcs[r.kind_codes_id].codes,
     tmin_seconds |-> r.tmin_seconds, tmin_offset |-> r.tmin_offset,
     tmax_seconds |-> r.tmax_seconds, tmax_offset |-> r.tmax_offset,
     deltat |-> r.deltat]

\* files INNER JOIN nuts INNER JOIN kind_codes over the nut rows `rows`
JoinRows(frows, rows, kcs) ==
    {<<f, r>> \in frows \X rows :
        f.rowid = r.file_id /\ r.kind_codes_id \in 1..Len(kcs)}

undig(filename) ==
    {JoinedNut(p[1], p[2], kind_codes) :
        p \in {q \in JoinRows(files, nuts, kind_codes) : q[1].file_name = filename}}

(***************************************************************************)
(* Selection: make_unique_name, __init__, add, delete; new_selection       *)
(***************************************************************************)
\* An absent value (Python None, SQL NULL) and a present one.
None == <<>>

Some(x) == <<x>>

\* The selections and their temp tables, threaded through the statements of
\* one call; raised: a statement has raised sqlite3.IntegrityError.
SelState == [selections |-> selections, temp_tables |-> temp_tables,
             file_states |-> file_states, sq_nuts |-> sq_nuts, raised |-> FALSE]

RECURSIVE RemoveFirst(_, _)
\* list.remove(x)
RemoveFirst(s, x) ==
    IF s = <<>> THEN <<>>
    ELSE IF Head(s) = x THEN Tail(s)
    ELSE <<Head(s)>> \o RemoveFirst(Tail(s), x)

\* Selection.__init__ with name = 'selection_' + make_unique_name()
SelectionInit(st, name) ==
    [st EXCEPT !.temp_tables = @ \cup {<<name, "file_states">>},
               !.file_states[name] = <<>>,
               !.selections = Append(@, name)]

\* SelectionDelete dropping the file-state tables of all selections.
SelectionDeleteAll(st, name) ==
    [st EXCEPT !.temp_tables = {tt \in @ : tt[2] # "file_states"},
               !.file_states = [n \in DOMAIN @ |-> <<>>],
               !.selections = <<>>]

\* Selection.delete
SelectionDelete(st, name) ==
    [st EXCEPT !.temp_tables = @ \ {<<name, "file_states">>},
               !.file_states[name] = <<>>,
               !.selections = RemoveFirst(@, name)]

IsMember(rows, file_name) == \E i \in 1..Len(rows) : rows[i].file_name = file_name

\* InsertFileStates with VALUES (?, 1) and one statement for all names.
InsertFreshFileStates(t, filenames) ==
    [t EXCEPT !.rows = @ \o [i \in 1..Len(filenames) |->
                                [file_name |-> filenames[i], file_state |-> FRESH]]]

RECURSIVE InsertFileStates(_, _)
\* executemany INSERT INTO file_states VALUES (?, 0): one statement per name;
\* the first that breaks PRIMARY KEY (file_name) raises, and the rows of the
\* statements before it stay.
InsertFileStates(t, filenames) ==
    IF filenames = <<>> THEN t
    ELSE IF IsMember(t.rows, Head(filenames)) THEN [t EXCEPT !.raised = TRUE]
    ELSE InsertFileStates(
            [t EXCEPT !.rows = Append(@, [file_name |-> Head(filenames),
                                          file_state |-> STALE])],
            Tail(filenames))

\* Selection.add
SelectionAdd(st, name, filenames) ==
    LET t == InsertFileStates([rows |-> st.file_states[name], raised |-> FALSE],
                              filenames)
    IN  [st EXCEPT !.file_states[name] = t.rows, !.raised = t.raised]

\* Database.new_selection
NewSelection(st, name, filenames) ==
    IF filenames # <<>> THEN SelectionAdd(SelectionInit(st, name), name, filenames)
    ELSE SelectionInit(st, name)

(***************************************************************************)
(* Selection.iter_mtimes, Selection.get_mtimes, Database.get_mtimes        *)
(***************************************************************************)
\* iter_mtimes with ORDER BY file_states.rowid DESC.
iter_mtimes_desc(rows) ==
    [i \in 1..Len(rows) |->
        LET found == {f \in files : f.file_name = rows[Len(rows) + 1 - i].file_name}
        IN  IF found = {} THEN <<None, None, None>>
            ELSE LET f == CHOOSE f \in found : TRUE
                 IN  <<Some(f.file_name), Some(f.file_format), Some(f.file_mtime)>>]

\* file_states LEFT OUTER JOIN files ORDER BY file_states.rowid: one row
\* (files.file_name, files.file_format, files.file_mtime) per member
iter_mtimes(rows) ==
    [i \in 1..Len(rows) |->
        LET found == {f \in files : f.file_name = rows[i].file_name}
        IN  IF found = {} THEN <<None, None, None>>
            ELSE LET f == CHOOSE f \in found : TRUE
                 IN  <<Some(f.file_name), Some(f.file_format), Some(f.file_mtime)>>]

SelectionGetMtimes(rows) == [i \in 1..Len(rows) |-> iter_mtimes(rows)[i][3]]

\* Database.get_mtime: the point lookup
get_mtime(filename) ==
    LET found == {f \in files : f.file_name = filename}
    IN  IF found = {} THEN None ELSE Some((CHOOSE f \in found : TRUE).file_mtime)

SetSelections(st) ==
    /\ selections' = st.selections
    /\ temp_tables' = st.temp_tables
    /\ file_states' = st.file_states
    /\ sq_nuts' = st.sq_nuts

GetMtimes(filenames) ==
    /\ icount < MaxIcount
    /\ icount' = icount + 1
    /\ \E st \in {NewSelection(SelState, icount, filenames)} :
          /\ SetSelections(IF st.raised THEN st ELSE SelectionDelete(st, icount))
          /\ lastOp' = [op |-> "get_mtimes", filenames |-> filenames,
                        raised |-> st.raised,
                        result |-> IF st.raised THEN <<>>
                                   ELSE SelectionGetMtimes(st.file_states[icount])]
    /\ UNCHANGED <<files, nuts, kind_codes, need_commit, uncommitted, dug, held, dug_kind_codes,
                   dig_failed, thread_vars>>

(***************************************************************************)
(* Selection.undig_grouped, Database.undig_all, Database.undig_many        *)
(***************************************************************************)
NullInt == -1

NullStr == "NULL"

\* A row of the LEFT OUTER JOINs for a file row without nut rows.
NullNut(f) ==
    [file_name |-> f.file_name, file_format |-> f.file_format,
     file_mtime |-> f.file_mtime,
     file_segment |-> NullInt, file_element |-> NullInt,
     kind |-> NullStr, codes |-> NullStr,
     tmin_seconds |-> NullInt, tmin_offset |-> NullInt,
     tmax_seconds |-> NullInt, tmax_offset |-> NullInt, deltat |-> NullInt]

\* The rows the SELECT of undig_grouped gives for one member: fn is
\* values[0], present is (values[1] is not None), nut is Nut(values[1:]).
MemberRows(file_name) ==
    LET found == {f \in files : f.file_name = file_name}
    IN  IF found = {}
        THEN {[fn |-> file_name, present |-> FALSE,
               nut |-> NullNut([file_name |-> NullStr, file_format |-> NullStr,
                                file_mtime |-> NullInt])]}
        ELSE LET f == CHOOSE f \in found : TRUE
                 mine == {r \in nuts : r.file_id = f.rowid}
             IN  IF mine = {}
                 THEN {[fn |-> file_name, present |-> TRUE, nut |-> NullNut(f)]}
                 ELSE {[fn |-> file_name, present |-> TRUE,
                        nut |-> JoinedNut(f, r, kind_codes)] : r \in mine}

RECURSIVE SetToSeq(_)
SetToSeq(S) ==
    IF S = {} THEN <<>>
    ELSE LET x == CHOOSE x \in S : TRUE IN <<x>> \o SetToSeq(S \ {x})

RECURSIVE GroupedRowsAll(_, _)
\* GroupedRows without the WHERE clause of skip_unchanged.
GroupedRowsAll(rows, skip_unchanged) ==
    IF rows = <<>> THEN <<>>
    ELSE SetToSeq(MemberRows(Head(rows).file_name))
         \o GroupedRowsAll(Tail(rows), skip_unchanged)

RECURSIVE GroupedRows(_, _)
\* ORDER BY file_states.rowid: the rows member by member (WHERE file_state
\* == 0 when skip_unchanged).  The order of one member's rows is not set by
\* the query; the nuts of a group are kept as a set.
GroupedRows(rows, skip_unchanged) ==
    IF rows = <<>> THEN <<>>
    ELSE (IF skip_unchanged /\ Head(rows).file_state # STALE THEN <<>>
          ELSE SetToSeq(MemberRows(Head(rows).file_name)))
         \o GroupedRows(Tail(rows), skip_unchanged)

RECURSIVE GroupLoop(_, _, _, _)
\* The loop of undig_grouped and undig_all over the rows of the cursor:
\* fn is None or the file name of the row before, acc the nuts collected for
\* it, out the pairs yielded so far.
GroupLoop(rows, fn, acc, out) ==
    IF rows = <<>>
    THEN IF fn # None THEN Append(out, <<fn[1], acc>>) ELSE out
    ELSE LET v == Head(rows)
             flush == fn # None /\ v.fn # fn[1]
             kept == IF flush THEN {} ELSE acc
         IN  GroupLoop(Tail(rows), Some(v.fn),
                       IF v.present THEN kept \cup {v.nut} ELSE kept,
                       IF flush THEN Append(out, <<fn[1], acc>>) ELSE out)

undig_grouped(rows, skip_unchanged) ==
    GroupLoop(GroupedRows(rows, skip_unchanged), None, {}, <<>>)

Perms(S) ==
    {s \in [1..Cardinality(S) -> S] : \A i, j \in DOMAIN s : i # j => s[i] # s[j]}

\* The rows of the SELECT of undig_all: values[0] is files.file_name and
\* values[1] is files.file_format.
AllRows ==
    {[fn |-> p[1].file_name, present |-> p[1].file_format # NoneVal,
      nut |-> JoinedNut(p[1], p[2], kind_codes)] :
        p \in JoinRows(files, nuts, kind_codes)}

\* undig_all, iterated to the end.  Its SELECT has no ORDER BY: the rows come
\* in an order the query does not set.
UndigAll ==
    /\ \E order \in Perms(AllRows) :
          lastOp' = [op |-> "undig_all", result |-> GroupLoop(order, None, {}, <<>>)]
    /\ UNCHANGED <<files, nuts, kind_codes, need_commit, uncommitted, selection_vars, dug, held,
                   dug_kind_codes, dig_failed, thread_vars>>

\* undig_many(filenames): a generator.  to_end: the caller iterates until
\* StopIteration; otherwise it takes `taken` pairs and drops the generator,
\* which then never runs past the yield it is suspended at.  A generator that
\* was never advanced has not run its first statement.
UndigMany(filenames, to_end, taken) ==
    IF ~to_end /\ taken = 0
    THEN /\ lastOp' = [op |-> "undig_many", filenames |-> filenames,
                       to_end |-> FALSE, started |-> FALSE, raised |-> FALSE,
                       selection |-> NullInt, result |-> <<>>]
         /\ UNCHANGED <<files, nuts, kind_codes, need_commit, uncommitted, selection_vars,
                        dug, held, dug_kind_codes, dig_failed, thread_vars>>
    ELSE /\ icount < MaxIcount
         /\ icount' = icount + 1
         /\ \E st \in {NewSelection(SelState, icount, filenames)} :
            \E groups \in {undig_grouped(st.file_states[icount], FALSE)} :
               /\ st.raised \/ to_end \/ taken <= Len(groups)
               /\ SetSelections(IF ~st.raised /\ to_end
                                THEN SelectionDelete(st, icount) ELSE st)
               /\ lastOp' = [op |-> "undig_many", filenames |-> filenames,
                             to_end |-> to_end, started |-> TRUE,
                             raised |-> st.raised, selection |-> icount,
                             result |-> IF st.raised THEN <<>>
                                        ELSE IF to_end THEN groups
                                        ELSE SubSeq(groups, 1, taken)]
         /\ UNCHANGED <<files, nuts, kind_codes, need_commit, uncommitted, dug, held,
                        dug_kind_codes, dig_failed, thread_vars>>

(***************************************************************************)
(* Squirrel: __init__, add, _update_nuts                                   *)
(***************************************************************************)
Squirrels == {name \in SelectionNames : <<name, "nuts">> \in temp_tables}

\* Squirrel.__init__
SquirrelInit(st, name) ==
    LET sel == SelectionInit(st, name)
    IN  [sel EXCEPT !.temp_tables = @ \cup {<<name, "nuts">>},
                    !.sq_nuts[name] = {}]

NewSquirrel ==
    /\ icount < MaxIcount
    /\ icount' = icount + 1
    /\ SetSelections(SquirrelInit(SelState, icount))
    /\ lastOp' = [op |-> "new_squirrel", selection |-> icount]
    /\ UNCHANGED <<files, nuts, kind_codes, need_commit, uncommitted, dug, held, dug_kind_codes,
                   dig_failed, thread_vars>>

\* UnindexedNuts without its WHERE clause.
AllMemberNuts(rows) ==
    {r \in nuts :
        \E i \in 1..Len(rows), f \in files :
            /\ rows[i].file_name = f.file_name
            /\ f.rowid = r.file_id}

\* SELECT nuts.* FROM file_states INNER JOIN files INNER JOIN nuts
\* WHERE file_state != 2
UnindexedNuts(rows) ==
    {r \in nuts :
        \E i \in 1..Len(rows), f \in files :
            /\ rows[i].file_state # INDEXED
            /\ rows[i].file_name = f.file_name
            /\ f.rowid = r.file_id}

\* UPDATE file_states SET file_state = 2
MarkIndexed(rows) == [i \in 1..Len(rows) |-> [rows[i] EXCEPT !.file_state = INDEXED]]

\* Squirrel._update_nuts: the INSERT ... SELECT is one statement; it raises
\* and inserts nothing when a row breaks PRIMARY KEY (file_id, file_segment,
\* file_element) of the private table, and the UPDATE is then not reached.
UpdateNuts(st, name) ==
    LET new == UnindexedNuts(st.file_states[name])
    IN  IF \E r \in new, q \in st.sq_nuts[name] : SamePrimaryKey(r, q)
        THEN [st EXCEPT !.raised = TRUE]
        ELSE [st EXCEPT !.sq_nuts[name] = @ \cup new,
                         !.file_states[name] = MarkIndexed(@)]

\* Squirrel.add (its call of _load is under `if False`)
SquirrelAddResult(st, name, filenames) ==
    LET added == SelectionAdd(st, name, filenames)
    IN  IF added.raised THEN added ELSE UpdateNuts(added, name)

SquirrelAdd(name, filenames) ==
    /\ name \in Squirrels
    /\ \E st \in {SquirrelAddResult(SelState, name, filenames)} :
          /\ SetSelections(st)
          /\ lastOp' = [op |-> "squirrel_add", selection |-> name,
                        raised |-> st.raised,
                        earlier |-> Len(file_states[name])]
    /\ UNCHANGED <<files, nuts, kind_codes, need_commit, uncommitted, icount, dug, held,
                   dug_kind_codes, dig_failed, thread_vars>>

(***************************************************************************)
(* Squirrel.undig_span, Squirrel.undig_span_naiv                           *)
(***************************************************************************)
\* model.tsplit on a time in half seconds: (seconds, offset)
tsplit(t) == <<t \div 2, t % 2>>

\* TminCond without the limits on tmin_seconds.
TminCondAnyTmin(r, tmax_seconds) == r.kscale \in 0..Len(tscale_edges)

\* ' OR '.join(tmin_cond) on the row r
TminCond(r, tmax_seconds) ==
    \E kscale \in 0..Len(tscale_edges) :
        IF kscale # Len(tscale_edges)
        THEN /\ r.kscale = kscale
             /\ r.tmin_seconds >= tmax_seconds - tscale_edges[kscale + 1] - 1
             /\ r.tmin_seconds <= tmax_seconds + 1
        ELSE /\ r.kscale = kscale
             /\ r.tmin_seconds <= tmax_seconds + 1

undig_span(name, tmin, tmax) ==
    LET tmin_seconds == tsplit(tmin)[1]
        tmax_seconds == tsplit(tmax)[1]
    IN  {JoinedNut(p[1], p[2], kind_codes) :
            p \in {q \in JoinRows(files, sq_nuts[name], kind_codes) :
                      /\ TminCond(q[2], tmax_seconds)
                      /\ q[2].tmax_seconds >= tmin_seconds}}

undig_span_naiv(name, tmin, tmax) ==
    LET tmin_seconds == tsplit(tmin)[1]
        tmax_seconds == tsplit(tmax)[1]
    IN  {JoinedNut(p[1], p[2], kind_codes) :
            p \in {q \in JoinRows(files, sq_nuts[name], kind_codes) :
                      /\ q[2].tmax_seconds >= tmin_seconds
                      /\ q[2].tmin_seconds <= tmax_seconds + 1}}

(***************************************************************************)
(* Selections kept by the caller: Database.new_selection, Selection.add,   *)
(* Selection.flag_unchanged, the readers, Selection.delete, Squirrel.delete*)
(***************************************************************************)
\* new_selection(filenames), the selection kept by the caller.  When add
\* raises, the selection is already registered and stays.
NewSelectionOp(filenames) ==
    /\ icount < MaxIcount
    /\ icount' = icount + 1
    /\ \E st \in {NewSelection(SelState, icount, filenames)} :
          /\ SetSelections(st)
          /\ lastOp' = [op |-> "new_selection", selection |-> icount,
                        filenames |-> filenames, raised |-> st.raised]
    /\ UNCHANGED <<files, nuts, kind_codes, need_commit, uncommitted, dug, held, dug_kind_codes,
                   dig_failed, thread_vars>>

\* Selection.add on a plain selection (Squirrel overrides add).
SelectionAddOp(name, filenames) ==
    /\ name \in Range(selections) \ Squirrels
    /\ \E st \in {SelectionAdd(SelState, name, filenames)} :
          /\ SetSelections(st)
          /\ lastOp' = [op |-> "selection_add", selection |-> name,
                        filenames |-> filenames, raised |-> st.raised,
                        before |-> file_states[name]]
    /\ UNCHANGED <<files, nuts, kind_codes, need_commit, uncommitted, icount, dug, held,
                   dug_kind_codes, dig_failed, thread_vars>>

\* What the file system and io.get_format_provider(fmt).mtime(filename) give
\* for one file name: whether os.path.exists, and the provider's outcome
\* ("mtime": it returns mtime; or the exception it raises).
FsEntries ==
    [exists : BOOLEAN, provider : {"mtime", "FileLoadError", "UnknownFormat"},
     mtime : {1}]
    \cup [exists : {TRUE}, provider : {"mtime"}, mtime : {2}]

FsStates == [FileNames -> FsEntries]

\* FilenameState that never asks the provider for the mtime.
FilenameStateNoMtime(row, check_mtime, fs) ==
    IF row[3] = None \/ ~fs[row[1][1]].exists THEN <<STALE, row[1]>>
    ELSE <<FRESH, row[1]>>

\* FilenameState with the two except clauses exchanged.
FilenameStateExchanged(row, check_mtime, fs) ==
    IF row[3] = None \/ ~fs[row[1][1]].exists THEN <<STALE, row[1]>>
    ELSE IF check_mtime
         THEN IF fs[row[1][1]].provider = "FileLoadError" THEN <<FRESH, row[1]>>
              ELSE IF fs[row[1][1]].provider = "UnknownFormat" THEN <<STALE, row[1]>>
              ELSE IF row[3][1] # fs[row[1][1]].mtime THEN <<STALE, row[1]>>
              ELSE <<FRESH, row[1]>>
         ELSE <<FRESH, row[1]>>

\* iter_filenames_states for one row (filename, fmt, mtime_db) of
\* iter_mtimes: the pair (state, filename) it yields.
FilenameState(row, check_mtime, fs) ==
    LET filename == row[1]
        mtime_db == row[3]
    IN  IF mtime_db = None \/ ~fs[filename[1]].exists THEN <<STALE, filename>>
        ELSE IF check_mtime
             THEN IF fs[filename[1]].provider = "FileLoadError"
                  THEN <<STALE, filename>>
                  ELSE IF fs[filename[1]].provider = "UnknownFormat"
                  THEN <<FRESH, filename>>
                  ELSE IF mtime_db[1] # fs[filename[1]].mtime
                  THEN <<STALE, filename>>
                  ELSE <<FRESH, filename>>
             ELSE <<FRESH, filename>>

\* The pairs of iter_filenames_states, one per member.
iter_filenames_states(rows, check_mtime, fs) ==
    [i \in 1..Len(rows) |-> FilenameState(iter_mtimes(rows)[i], check_mtime, fs)]

\* UpdateFileStates with the UPDATE of _update_nuts in its place.
UpdateFileStatesIndexed(rows, pairs) == MarkIndexed(rows)

\* executemany UPDATE file_states SET file_state = ? WHERE file_name = ?: a
\* pair whose filename is NULL matches no row.
UpdateFileStates(rows, pairs) ==
    [i \in 1..Len(rows) |->
        LET hits == {j \in 1..Len(pairs) : pairs[j][2] = Some(rows[i].file_name)}
        IN  IF hits = {} THEN rows[i]
            ELSE [rows[i] EXCEPT !.file_state = pairs[Max(hits)][1]]]

flag_unchanged(rows, check_mtime, fs) ==
    UpdateFileStates(rows, iter_filenames_states(rows, check_mtime, fs))

FlagUnchanged(name, check_mtime, fs) ==
    /\ name \in Range(selections)
    /\ file_states' = [file_states EXCEPT
                          ![name] = flag_unchanged(@, check_mtime, fs)]
    /\ lastOp' = [op |-> "flag_unchanged", selection |-> name,
                  check_mtime |-> check_mtime, fs |-> fs,
                  before |-> file_states[name]]
    /\ UNCHANGED <<files, nuts, kind_codes, need_commit, uncommitted, selections,
                   temp_tables, sq_nuts, icount, dug, held, dug_kind_codes, dig_failed, thread_vars>>

\* Selection.undig_grouped, iterated to the end.
UndigGrouped(name, skip_unchanged) ==
    /\ name \in Range(selections)
    /\ lastOp' = [op |-> "undig_grouped", selection |-> name,
                  skip_unchanged |-> skip_unchanged,
                  result |-> undig_grouped(file_states[name], skip_unchanged)]
    /\ UNCHANGED <<files, nuts, kind_codes, need_commit, uncommitted, selection_vars, dug, held,
                   dug_kind_codes, dig_failed, thread_vars>>

\* list(Selection.iter_mtimes()) and Selection.get_mtimes()
SelectionMtimes(name) ==
    /\ name \in Range(selections)
    /\ lastOp' = [op |-> "selection_get_mtimes", selection |-> name,
                  rows |-> iter_mtimes(file_states[name]),
                  result |-> SelectionGetMtimes(file_states[name])]
    /\ UNCHANGED <<files, nuts, kind_codes, need_commit, uncommitted, selection_vars, dug, held,
                   dug_kind_codes, dig_failed, thread_vars>>

\* Squirrel.delete without its DROP TABLE statement.
SquirrelDeleteKeepNuts(st, name) == SelectionDelete(st, name)

\* Squirrel.delete: DROP TABLE <name>_nuts, then Selection.delete
SquirrelDelete(st, name) ==
    SelectionDelete([st EXCEPT !.temp_tables = @ \ {<<name, "nuts">>},
                               !.sq_nuts[name] = {}],
                    name)

\* delete() on a registered selection, plain or temporal index.
Delete(name) ==
    /\ name \in Range(selections)
    /\ SetSelections(IF name \in Squirrels THEN SquirrelDelete(SelState, name)
                     ELSE SelectionDelete(SelState, name))
    /\ lastOp' = [op |-> "delete", selection |-> name,
                  squirrel |-> name \in Squirrels]
    /\ UNCHANGED <<files, nuts, kind_codes, need_commit, uncommitted, icount, dug, held,
                   dug_kind_codes, dig_failed, thread_vars>>

(***************************************************************************)
(* Squirrel.tspan, Squirrel.iter_codes                                     *)
(***************************************************************************)
MinOf(S) == CHOOSE x \in S : \A y \in S : x <= y

\* tspan over the nuts table of the catalog.
tspan_catalog(name) ==
    IF nuts = {} THEN <<None, None>>
    ELSE <<Some(MinOf({r.tmin_seconds : r \in nuts})),
           Some(Max({r.tmax_seconds : r \in nuts}))>>

\* SELECT MIN(tmin_seconds) FROM <name>_nuts and SELECT MAX(tmax_seconds)
\* FROM <name>_nuts: one row each, NULL for an empty table.
tspan(name) ==
    IF sq_nuts[name] = {} THEN <<None, None>>
    ELSE <<Some(MinOf({r.tmin_seconds : r \in sq_nuts[name]})),
           Some(Max({r.tmax_seconds : r \in sq_nuts[name]}))>>

Tspan(name) ==
    /\ name \in Squirrels
    /\ lastOp' = [op |-> "tspan", selection |-> name, result |-> tspan(name)]
    /\ UNCHANGED <<files, nuts, kind_codes, need_commit, uncommitted, selection_vars, dug, held,
                   dug_kind_codes, dig_failed, thread_vars>>

\* codes.split(separator) on the codes the model digs.
SplitCodes(codes) ==
    CASE codes = "STA.BHZ" -> <<"STA", "BHZ">>
      [] codes = "STA" -> <<"STA">>
      [] OTHER -> <<codes>>

\* Squirrel.iter_codes: SELECT kind, codes from kind_codes, the rows in the
\* order `order` (the statement has no ORDER BY); the argument kind is not
\* used and the statement names no table of the selection.
iter_codes(name, kind, order) ==
    [i \in 1..Len(order) |->
        <<kind_codes[order[i]].kind, SplitCodes(kind_codes[order[i]].codes)>>]

IterCodes(name, kind) ==
    /\ name \in Squirrels
    /\ \E order \in Perms(1..Len(kind_codes)) :
          lastOp' = [op |-> "iter_codes", selection |-> name, kind |-> kind,
                     result |-> iter_codes(name, kind, order)]
    /\ UNCHANGED <<files, nuts, kind_codes, need_commit, uncommitted, selection_vars, dug, held,
                   dug_kind_codes, dig_failed, thread_vars>>

(***************************************************************************)
(* Database.commit                                                         *)
(***************************************************************************)
\* if self._need_commit: self._conn.commit(); self._need_commit = False
Commit ==
    /\ need_commit' = FALSE
    /\ uncommitted' = IF need_commit THEN FALSE ELSE uncommitted
    /\ lastOp' = [op |-> "commit", flushed |-> need_commit,
                  pending |-> uncommitted]
    /\ UNCHANGED <<files, nuts, kind_codes, selection_vars, dug, held, dug_kind_codes,
                   dig_failed, thread_vars>>

(***************************************************************************)
(* Threads of the one process creating selections: make_unique_name taken  *)
(* statement by statement.  'icount += 1' is a load, an addition and a     *)
(* store.  The Database belongs to the thread Owner (an sqlite3 connection *)
(* is used by the thread that opened it only): the other threads create    *)
(* their selections on connections of their own, which share the counter   *)
(* and nothing else with it.                                               *)
(***************************************************************************)
MaxThreads == 3

Threads == 1..MaxThreads

Owner == 1

NoThread == 0

Idle == [pc |-> "idle", name |-> NullInt, reg |-> NullInt]

\* with lock: entered by any thread whether the lock is held or not.
CanAcquireUnlocked == TRUE

\* with lock: threading.Lock.acquire blocks while another thread holds it
CanAcquire == lock = NoThread

\* Selection.__init__ reaches make_unique_name and enters 'with lock'
Acquire(t) ==
    /\ threads[t].pc = "idle"
    /\ icount < MaxIcount
    /\ CanAcquire
    /\ lock' = t
    /\ threads' = [threads EXCEPT ![t].pc = "format"]
    /\ UNCHANGED <<catalog, need_commit, uncommitted, selection_vars, lastOp, dug, held,
                   dug_kind_codes, dig_failed, issued>>

\* name = '%i_%i' % (os.getpid(), icount)
FormatName(t) ==
    /\ threads[t].pc = "format"
    /\ threads' = [threads EXCEPT ![t].pc = "load", ![t].name = icount]
    /\ UNCHANGED <<catalog, need_commit, uncommitted, selection_vars, lastOp, dug, held,
                   dug_kind_codes, dig_failed, lock, issued>>

\* icount += 1: the global is loaded
LoadIcount(t) ==
    /\ threads[t].pc = "load"
    /\ threads' = [threads EXCEPT ![t].pc = "store", ![t].reg = icount]
    /\ UNCHANGED <<catalog, need_commit, uncommitted, selection_vars, lastOp, dug, held,
                   dug_kind_codes, dig_failed, lock, issued>>

\* icount += 1: the sum is stored
StoreIcount(t) ==
    /\ threads[t].pc = "store"
    /\ icount' = threads[t].reg + 1
    /\ threads' = [threads EXCEPT ![t].pc = "release", ![t].reg = NullInt]
    /\ UNCHANGED <<catalog, need_commit, uncommitted, selections, temp_tables, file_states,
                   sq_nuts, lastOp, dug, held, dug_kind_codes, dig_failed, lock, issued>>

\* the with block is left and the name returned
Release(t) ==
    /\ threads[t].pc = "release"
    /\ lock' = IF lock = t THEN NoThread ELSE lock
    /\ issued' = Append(issued, threads[t].name)
    /\ threads' = [threads EXCEPT ![t].pc = "create"]
    /\ UNCHANGED <<catalog, need_commit, uncommitted, selection_vars, lastOp, dug, held,
                   dug_kind_codes, dig_failed>>

\* The rest of Selection.__init__: CREATE TEMP TABLE and registration, on the
\* Database of the thread; for a Squirrel the rest of Squirrel.__init__ too.
CreateTable(t, squirrel) ==
    /\ threads[t].pc = "create"
    /\ threads' = [threads EXCEPT ![t] = Idle]
    /\ IF t = Owner
       THEN /\ SetSelections(IF squirrel
                             THEN SquirrelInit(SelState, threads[t].name)
                             ELSE SelectionInit(SelState, threads[t].name))
            /\ lastOp' = [op |-> "selection_init", selection |-> threads[t].name,
                          squirrel |-> squirrel]
       ELSE UNCHANGED <<selections, temp_tables, file_states, sq_nuts, lastOp>>
    /\ UNCHANGED <<catalog, need_commit, uncommitted, icount, dug, held, dug_kind_codes, dig_failed,
                   lock, issued>>

\* The owner deletes one of its selections between two calls.
DeleteThreads ==
    /\ threads[Owner].pc = "idle"
    /\ \E name \in Range(selections) : Delete(name)

AcquireThreads == \E t \in Threads : Acquire(t)

FormatNameThreads == \E t \in Threads : FormatName(t)

LoadIcountThreads == \E t \in Threads : LoadIcount(t)

StoreIcountThreads == \E t \in Threads : StoreIcount(t)

ReleaseThreads == \E t \in Threads : Release(t)

CreateTableThreads == \E t \in Threads, squirrel \in BOOLEAN : CreateTable(t, squirrel)

NextThreads ==
    \/ AcquireThreads
    \/ FormatNameThreads
    \/ LoadIcountThreads
    \/ StoreIcountThreads
    \/ ReleaseThreads
    \/ CreateTableThreads
    \/ DeleteThreads


(***************************************************************************)
(* The catalog alone: dig calls of up to MaxDigLen nuts, and undig_all.    *)
(***************************************************************************)
ZeroSpan == <<0, 0, 0, 0>>

CatalogNuts ==
    {MakeNut(k, p[1], p[2], ZeroSpan) : k \in FileKeys, p \in Payloads}

Init ==
    /\ files = {}
    /\ nuts = {}
    /\ kind_codes = <<>>
    /\ need_commit = FALSE
    /\ uncommitted = FALSE
    /\ selections = <<>>
    /\ temp_tables = {}
    /\ file_states = [name \in SelectionNames |-> <<>>]
    /\ sq_nuts = [name \in SelectionNames |-> {}]
    /\ icount = 0
    /\ lastOp = [op |-> "init"]
    /\ dug = [F \in FileNames |-> {}]
    /\ held = {}
    /\ dug_kind_codes = {}
    /\ dig_failed = FALSE
    /\ lock = NoThread
    /\ threads = [t \in Threads |-> Idle]
    /\ issued = <<>>

CatalogInputs == SeqsUpTo(CatalogNuts, MaxDigLen)

\* The caller that saw dig raise makes no further dig call.
DigCatalog ==
    /\ ~dig_failed
    /\ \E input \in CatalogInputs : Dig(input)

Next == DigCatalog \/ UndigAll

Spec == Init /\ [][Next]_vars

(***************************************************************************)
(* The catalog and the lookups that go through a scratch selection:        *)
(* get_mtimes and undig_many.                                              *)
(***************************************************************************)
QueryNuts ==
    {MakeNut(<<"a", "mseed", 1>>, slot, <<"waveform", "STA.BHZ">>, ZeroSpan) :
        slot \in {<<0, 0>>, <<0, 1>>}}
    \cup {MakeNut(<<"b", "mseed", 2>>, <<0, 0>>, <<"station", "STA">>, ZeroSpan)}

QueryInputs == SeqsUpTo(QueryNuts, MaxDigLen)

DigQuery ==
    /\ ~dig_failed
    /\ \E input \in QueryInputs : Dig(input)

GetMtimesQuery ==
    /\ icount < MaxScratch
    /\ \E filenames \in SeqsUpTo(FileNames, MaxNames) : GetMtimes(filenames)

UndigManyQuery ==
    /\ icount < MaxScratch
    /\ \E filenames \in SeqsUpTo(FileNames, MaxNames), to_end \in BOOLEAN,
          taken \in 0..MaxNames :
           /\ to_end => taken = 0
           /\ UndigMany(filenames, to_end, taken)

NextQuery == DigQuery \/ GetMtimesQuery \/ UndigManyQuery

SpecQuery == Init /\ [][NextQuery]_vars

(***************************************************************************)
(* The temporal index: digs of nuts of several durations, Squirrels, add.  *)
(***************************************************************************)
\* (tmin_seconds, tmin_offset, tmax_seconds, tmax_offset): 0.0 s to 0.5 s
\* and 1.0 s to 3.5 s
IndexSpans == {<<0, 0, 0, 1>>, <<1, 0, 3, 1>>}

IndexNuts ==
    {MakeNut(k, <<0, 0>>, <<"waveform", "STA.BHZ">>, span) :
        k \in {<<"a", "mseed", 1>>, <<"b", "mseed", 1>>}, span \in IndexSpans}

\* The query times, in half seconds.
QueryTimes == 0..9

IndexInputs == SeqsUpTo(IndexNuts, MaxDigLen)

DigIndex ==
    /\ ~dig_failed
    /\ \E input \in IndexInputs : Dig(input)

SquirrelAddIndex ==
    \E name \in SelectionNames, filenames \in SeqsUpTo(FileNames, MaxNames) :
        SquirrelAdd(name, filenames)

\* One temporal index at a time.
NewSquirrelIndex == Squirrels = {} /\ NewSquirrel

NextIndex == DigIndex \/ NewSquirrelIndex \/ SquirrelAddIndex

SpecIndex == Init /\ [][NextIndex]_vars

(***************************************************************************)
(* One selection or temporal index at a time, kept by the caller: add, the *)
(* readers, delete; flag_unchanged(check_mtime=False) on files that exist  *)
(* or are missing.                                                         *)
(***************************************************************************)
SelectionNuts ==
    {MakeNut(<<F, "mseed", 1>>, <<0, 0>>, <<"waveform", "STA.BHZ">>, ZeroSpan) :
        F \in FileNames}

DigSelection ==
    /\ ~dig_failed
    /\ \E input \in SeqsUpTo(SelectionNuts, MaxDigLen) : Dig(input)

NewSelectionSelection ==
    /\ selections = <<>>
    /\ \E filenames \in SeqsUpTo(FileNames, MaxNames) : NewSelectionOp(filenames)

NewSquirrelSelection == selections = <<>> /\ NewSquirrel

SelectionAddSelection ==
    \E name \in SelectionNames, filenames \in SeqsUpTo(FileNames, MaxNames) :
        SelectionAddOp(name, filenames)

SquirrelAddSelection ==
    \E name \in SelectionNames, filenames \in SeqsUpTo(FileNames, MaxNames) :
        SquirrelAdd(name, filenames)

\* The file system entry of a file that no member names plays no part.
DefaultEntry == [exists |-> TRUE, provider |-> "mtime", mtime |-> 1]

FsFor(rows) ==
    {fs \in FsStates : \A F \in FileNames : ~IsMember(rows, F) => fs[F] = DefaultEntry}

ExistenceOnly(fs) ==
    \A F \in FileNames : fs[F].provider = "mtime" /\ fs[F].mtime = 1

FlagUnchangedSelection ==
    \E name \in SelectionNames :
        \E fs \in {f \in FsFor(file_states[name]) : ExistenceOnly(f)} :
            FlagUnchanged(name, FALSE, fs)

UndigGroupedSelection ==
    \E name \in SelectionNames, skip_unchanged \in BOOLEAN :
        UndigGrouped(name, skip_unchanged)

SelectionMtimesSelection == \E name \in SelectionNames : SelectionMtimes(name)

DeleteSelection == \E name \in SelectionNames : Delete(name)

NextSelection ==
    \/ DigSelection
    \/ NewSelectionSelection
    \/ NewSquirrelSelection
    \/ SelectionAddSelection
    \/ SquirrelAddSelection
    \/ FlagUnchangedSelection
    \/ UndigGroupedSelection
    \/ SelectionMtimesSelection
    \/ DeleteSelection

SpecSelection == Init /\ [][NextSelection]_vars

(***************************************************************************)
(* flag_unchanged on one selection or temporal index, over a catalog       *)
(* filled by one dig call, for every state of the file system and every    *)
(* outcome of the format provider.                                         *)
(***************************************************************************)
DigFlag == files = {} /\ DigSelection

FlagUnchangedFlag ==
    \E name \in SelectionNames, check_mtime \in BOOLEAN :
        \E fs \in FsFor(file_states[name]) : FlagUnchanged(name, check_mtime, fs)

NextFlag ==
    \/ DigFlag
    \/ NewSelectionSelection
    \/ NewSquirrelSelection
    \/ SquirrelAddSelection
    \/ FlagUnchangedFlag

SpecFlag == Init /\ [][NextFlag]_vars

\* Threads creating selections, the owner deleting its own.
SpecThreads == Init /\ [][NextThreads]_vars

(***************************************************************************)
(* The temporal index and its summaries: digs of nuts of two kinds and two *)
(* spans, one Squirrel, add, tspan, iter_codes.                            *)
(***************************************************************************)
\* File a with a waveform nut from 0.0 s to 0.5 s or a station nut from 1.0 s
\* to 3.5 s, file b with the station nut.
SummaryNuts ==
    {MakeNut(<<"a", "mseed", 1>>, <<0, 0>>, <<"waveform", "STA.BHZ">>, <<0, 0, 0, 1>>),
     MakeNut(<<"a", "mseed", 1>>, <<0, 0>>, <<"station", "STA">>, <<1, 0, 3, 1>>),
     MakeNut(<<"b", "mseed", 1>>, <<0, 0>>, <<"station", "STA">>, <<1, 0, 3, 1>>)}

Kinds == {"waveform", "station"}

DigSummary ==
    /\ ~dig_failed
    /\ \E input \in SeqsUpTo(SummaryNuts, MaxDigLen) : Dig(input)

TspanSummary == \E name \in SelectionNames : Tspan(name)

IterCodesSummary ==
    \E name \in SelectionNames, kind \in Kinds \cup {NoneVal} : IterCodes(name, kind)

NextSummary ==
    \/ DigSummary
    \/ NewSquirrelIndex
    \/ SquirrelAddIndex
    \/ TspanSummary
    \/ IterCodesSummary

SpecSummary == Init /\ [][NextSummary]_vars

(***************************************************************************)
(* The catalog with commit: dig calls, undig_all as the read, commit.      *)
(***************************************************************************)
DigCommit ==
    /\ ~dig_failed
    /\ \E input \in QueryInputs : Dig(input)

NextCommit == DigCommit \/ UndigAll \/ Commit

SpecCommit == Init /\ [][NextCommit]_vars

(***************************************************************************)
(* The catalog over three files: dig calls that name one or two of them.   *)
(***************************************************************************)
FrameFiles == FileNames \cup {"c"}

FrameNuts ==
    {MakeNut(k, <<0, 0>>, <<"waveform", "STA.BHZ">>, ZeroSpan) :
        k \in FileKeys \cup {<<"c", "mseed", 1>>}}

FrameInputs == SeqsUpTo(FrameNuts, MaxDigLen)

DigFrame ==
    /\ ~dig_failed
    /\ \E input \in FrameInputs : Dig(input)

NextFrame == DigFrame

SpecFrame == Init /\ [][NextFrame]_vars

(***************************************************************************)
(* Two selections or temporal indexes on one catalog filled by one dig     *)
(* call: add, flag_unchanged(check_mtime=False), delete.                   *)
(***************************************************************************)
\* new_selection() without names, the members come with add.
NewSelectionPair == NewSelectionOp(<<>>)

FlagUnchangedPair ==
    \E name \in SelectionNames :
        \E fs \in {f \in FsFor(file_states[name]) : ExistenceOnly(f)} :
            FlagUnchanged(name, FALSE, fs)

\* add with one name per call
SelectionAddPair ==
    \E name \in SelectionNames, F \in FileNames : SelectionAddOp(name, <<F>>)

SquirrelAddPair ==
    \E name \in SelectionNames, F \in FileNames : SquirrelAdd(name, <<F>>)

\* One dig call with a nut of each file.
DigPair ==
    /\ files = {}
    /\ \E input \in {s \in [1..2 -> SelectionNuts] : s[1].file_name # s[2].file_name} :
          Dig(input)

NextPair ==
    \/ DigPair
    \/ NewSelectionPair
    \/ NewSquirrel
    \/ SelectionAddPair
    \/ SquirrelAddPair
    \/ FlagUnchangedPair
    \/ DeleteSelection

SpecPair == Init /\ [][NextPair]_vars

(***************************************************************************)
(* The duration ladder: digs of nuts whose durations lie below, on and     *)
(* above each edge of the ladder.                                          *)
(***************************************************************************)
\* Durations of 0.5 s, 1 s (from 0 s and from 1 s), 1.5 s, 3 s and 3.5 s
LadderSpans ==
    {<<0, 0, 0, 1>>, <<0, 0, 1, 0>>, <<1, 0, 2, 0>>, <<0, 1, 2, 0>>,
     <<0, 0, 3, 0>>, <<0, 0, 3, 1>>}

LadderNuts ==
    {MakeNut(<<"a", "mseed", 1>>, slot, <<"waveform", "STA.BHZ">>, span) :
        slot \in {<<0, 0>>, <<0, 1>>}, span \in LadderSpans}

DigLadder ==
    /\ ~dig_failed
    /\ \E input \in SeqsUpTo(LadderNuts, MaxDigLen) : Dig(input)

NextLadder == DigLadder

SpecLadder == Init /\ [][NextLadder]_vars

(***************************************************************************)
(* The temporal index queried by time: digs of nuts of one file that start *)
(* early and late, one Squirrel, add.                                      *)
(***************************************************************************)
\* spans 0.0 s to 0.5 s, 1.0 s to 3.5 s and 3.0 s to 3.5 s
WindowNuts ==
    {MakeNut(<<"a", "mseed", 1>>, slot, <<"waveform", "STA.BHZ">>, span) :
        slot \in {<<0, 0>>, <<0, 1>>},
        span \in {<<0, 0, 0, 1>>, <<1, 0, 3, 1>>, <<3, 0, 3, 1>>}}

DigWindow ==
    /\ ~dig_failed
    /\ \E input \in SeqsUpTo(WindowNuts, MaxDigLen) : Dig(input)

NextWindow == DigWindow \/ NewSquirrelIndex \/ SquirrelAddIndex

SpecWindow == Init /\ [][NextWindow]_vars

(***************************************************************************)
(* The claims.                                                             *)
(***************************************************************************)
SameSlot(m, n) ==
    m.file_segment = n.file_segment /\ m.file_element = n.file_element

\* C1: after any sequence of dig calls, undig(F) returns exactly the nuts
\* passed for file F in the most recent dig call that contained nuts of F,
\* one nut per dig'd (file_segment, file_element) with the dig'd values, no
\* nut of an earlier dig of F and no nut of another file.
C1_UndigReturnsLatestDig ==
    \A F \in FileNames :
        /\ undig(F) \subseteq dug[F]
        /\ \A n \in dug[F] :
              Cardinality({m \in undig(F) : SameSlot(m, n)}) = 1

\* C2: for every query window tmin <= tmax and every reachable content of a
\* temporal index's private nuts table, undig_span returns the same set of
\* nuts as undig_span_naiv.
C2_SpanEqualsNaiv ==
    \A name \in Squirrels : \A tmin, tmax \in QueryTimes :
        tmin <= tmax =>
            undig_span(name, tmin, tmax) = undig_span_naiv(name, tmin, tmax)

\* C3: dig is atomic per call: a dig call that raises leaves the files, the
\* nuts and the kind-code counts as they were before the call.
C3_DigAtomic ==
    [][(lastOp'.op = "dig" /\ ~lastOp'.ok) => catalog' = catalog]_vars

NutsOfKindCodes(i) == {r \in nuts : r.kind_codes_id = i}

\* C4: after any sequence of successful dig calls, the count of every
\* kind-code entry is the number of stored nut rows that reference it, and
\* there is exactly one entry for each (kind, codes) pair ever dig'd.
C4_KindCodeCounts ==
    ~dig_failed =>
        /\ \A i \in 1..Len(kind_codes) :
              /\ kind_codes[i].count = Cardinality(NutsOfKindCodes(i))
              /\ <<kind_codes[i].kind, kind_codes[i].codes>> \in dug_kind_codes
        /\ \A kc \in dug_kind_codes :
              Cardinality({i \in 1..Len(kind_codes) :
                  <<kind_codes[i].kind, kind_codes[i].codes>> = kc}) = 1

\* C4 witness: a replacing dig has left one kind-code entry without nuts and
\* another with two.
C4_Witness ==
    /\ ~dig_failed
    /\ lastOp.op = "dig" /\ lastOp.ok /\ lastOp.replaced
    /\ \E i, j \in 1..Len(kind_codes) :
          kind_codes[i].count = 0 /\ kind_codes[j].count = 2

\* C5: after any sequence of successful dig calls, every stored nut row
\* refers to a file row that exists and to a kind-code entry that exists.
C5_NoOrphanNuts ==
    ~dig_failed =>
        \A r \in nuts :
            /\ \E f \in files : f.rowid = r.file_id
            /\ r.kind_codes_id \in 1..Len(kind_codes)

\* C5 witness: a dig has replaced the row of one of two files, under a new
\* rowid, and both files have nuts.
C5_Witness ==
    /\ ~dig_failed
    /\ lastOp.op = "dig" /\ lastOp.ok /\ lastOp.replaced
    /\ Cardinality(files) = 2
    /\ \E f \in files : f.rowid = MaxRowid
    /\ \A f \in files : \E r \in nuts : r.file_id = f.rowid

\* C6: get_mtimes(names) returns a list as long as names whose i-th entry is
\* the mtime recorded for names[i], or None when the catalog has no such
\* file, also when a name occurs more than once.
C6_GetMtimesAligned ==
    lastOp.op = "get_mtimes" =>
        /\ ~lastOp.raised
        /\ Len(lastOp.result) = Len(lastOp.filenames)
        /\ \A i \in 1..Len(lastOp.filenames) :
              lastOp.result[i] = get_mtime(lastOp.filenames[i])

\* C7: in the pairs yielded by undig_all and by undig_grouped each file_name
\* appears in at most one pair, for every order in which the rows are scanned.
C7_GroupsNotSplit ==
    lastOp.op \in {"undig_all", "undig_many"} =>
        \A i, j \in 1..Len(lastOp.result) :
            i # j => lastOp.result[i][1] # lastOp.result[j][1]

\* C8: undig_many(file_names), iterated to the end, yields exactly one group
\* for each requested name and none for another file, and the group of a name
\* holds exactly the nuts the catalog stores for it.
C8_UndigManyGroups ==
    (lastOp.op = "undig_many" /\ lastOp.to_end) =>
        /\ ~lastOp.raised
        /\ \A i \in 1..Len(lastOp.result) :
              lastOp.result[i][1] \in Range(lastOp.filenames)
        /\ \A F \in Range(lastOp.filenames) :
              /\ Cardinality({i \in 1..Len(lastOp.result) :
                                 lastOp.result[i][1] = F}) = 1
              /\ \A i \in 1..Len(lastOp.result) :
                    lastOp.result[i][1] = F => lastOp.result[i][2] = undig(F)

\* C9: the scratch selection of undig_many is disposed when the iteration
\* runs to completion and when the caller abandons it early: its table is
\* dropped and it is no longer registered.
C9_ScratchDisposed ==
    (lastOp.op = "undig_many" /\ lastOp.started /\ ~lastOp.raised) =>
        /\ lastOp.selection \notin Range(selections)
        /\ <<lastOp.selection, "file_states">> \notin temp_tables

Members(rows) == {rows[i].file_name : i \in 1..Len(rows)}

AllIndexed(rows) == \A i \in 1..Len(rows) : rows[i].file_state = INDEXED

StoredNutRows(filenames) ==
    {r \in nuts : \E f \in files : f.file_name \in filenames /\ f.rowid = r.file_id}

\* C10: after Squirrel.add returns on a temporal index whose earlier members
\* are all INDEXED, every member is INDEXED, the private nuts table has
\* gained exactly the nut rows the catalog stores for the newly added files,
\* and the private nuts it held before are untouched.
C10_SquirrelAdd ==
    [][(/\ lastOp'.op = "squirrel_add"
        /\ ~lastOp'.raised
        /\ AllIndexed(file_states[lastOp'.selection]))
       => LET name == lastOp'.selection
              added == Members(file_states'[name]) \ Members(file_states[name])
          IN  /\ AllIndexed(file_states'[name])
              /\ sq_nuts'[name] \ sq_nuts[name] = StoredNutRows(added)
              /\ sq_nuts[name] \subseteq sq_nuts'[name]]_vars

\* C10 witness: add has returned on a temporal index that had a member with
\* nuts before, and has brought in a new member with nuts.
C10_Witness ==
    /\ lastOp.op = "squirrel_add" /\ ~lastOp.raised
    /\ lastOp.earlier >= 1
    /\ Len(file_states[lastOp.selection]) > lastOp.earlier
    /\ AllIndexed(file_states[lastOp.selection])
    /\ \A F \in Members(file_states[lastOp.selection]) :
          \E f \in files : f.file_name = F /\
              \E r \in sq_nuts[lastOp.selection] : r.file_id = f.rowid

NoRepeat(s) == \A i, j \in 1..Len(s) : i # j => s[i] # s[j]

\* C11: a second add on a temporal index with the same file names, the
\* catalog unchanged, succeeds and rewrites nothing: the private nuts table
\* is as after the first call and every member ends FRESH or INDEXED.
C11_SecondAddNoRewrite ==
    [][\A name \in SelectionNames, filenames \in SeqsUpTo(FileNames, MaxNames) :
          (/\ SquirrelAdd(name, filenames)
           /\ filenames # <<>> /\ NoRepeat(filenames)
           /\ Range(filenames) = Members(file_states[name])
           /\ AllIndexed(file_states[name])
           /\ sq_nuts[name] = StoredNutRows(Members(file_states[name])))
          => (/\ ~lastOp'.raised
              /\ sq_nuts'[name] = sq_nuts[name]
              /\ \A i \in 1..Len(file_states'[name]) :
                    file_states'[name][i].file_state \in {FRESH, INDEXED})]_vars

RowsOf(rows, F) == {i \in 1..Len(rows) : rows[i].file_name = F}

\* C12: Selection.add(filenames), for names that are not yet members, makes
\* each of them a member in state STALE and leaves the membership and state
\* of every existing member unchanged.
C12_AddNewMembers ==
    [][(/\ lastOp'.op = "selection_add"
        /\ NoRepeat(lastOp'.filenames)
        /\ Range(lastOp'.filenames) \cap Members(file_states[lastOp'.selection]) = {})
       => LET rows == file_states[lastOp'.selection]
              after == file_states'[lastOp'.selection]
          IN  /\ ~lastOp'.raised
              /\ \A F \in Range(lastOp'.filenames) :
                    /\ Cardinality(RowsOf(after, F)) = 1
                    /\ \A i \in RowsOf(after, F) : after[i].file_state = STALE
              /\ Members(after) = Members(rows) \cup Range(lastOp'.filenames)
              /\ \A F \in Members(rows) :
                    /\ Cardinality(RowsOf(after, F)) = 1
                    /\ \A i \in RowsOf(rows, F), j \in RowsOf(after, F) :
                          after[j].file_state = rows[i].file_state]_vars

\* C12 witness: add has brought a new member into a selection that had a
\* member which is not STALE.
C12_Witness ==
    /\ lastOp.op = "selection_add" /\ ~lastOp.raised
    /\ lastOp.filenames # <<>>
    /\ \E i, j \in 1..Len(file_states[lastOp.selection]) :
          /\ file_states[lastOp.selection][i].file_state = FRESH
          /\ file_states[lastOp.selection][j].file_name \in Range(lastOp.filenames)
          /\ file_states[lastOp.selection][j].file_state = STALE

\* C13: Selection.add ignores duplicates: when a name passed to add is
\* already a member, or occurs more than once in the call, the call
\* succeeds and the selection holds exactly one entry for that name.
C13_AddIgnoresDuplicates ==
    lastOp.op = "selection_add" =>
        /\ ~lastOp.raised
        /\ \A F \in Range(lastOp.filenames) :
              Cardinality(RowsOf(file_states[lastOp.selection], F)) = 1

\* A member file that exists, is recorded in the catalog, and whose provider
\* reports an mtime.
OnDisk(fs, F) ==
    fs[F].exists /\ fs[F].provider = "mtime" /\ get_mtime(F) # None

OnDiskCurrent(fs, F) == OnDisk(fs, F) /\ get_mtime(F) = Some(fs[F].mtime)

OnDiskChanged(fs, F) == OnDisk(fs, F) /\ get_mtime(F) # Some(fs[F].mtime)

\* C14: when all members exist on disk and are recorded in the catalog with
\* their on-disk mtime, except one member whose on-disk mtime differs,
\* flag_unchanged(check_mtime=True) sets exactly that member to STALE and
\* every other member to FRESH.
C14_FlagChangedMtime ==
    (/\ lastOp.op = "flag_unchanged" /\ lastOp.check_mtime
     /\ \E m \in Members(file_states[lastOp.selection]) :
           /\ OnDiskChanged(lastOp.fs, m)
           /\ \A F \in Members(file_states[lastOp.selection]) \ {m} :
                 OnDiskCurrent(lastOp.fs, F))
    => \A i \in 1..Len(file_states[lastOp.selection]) :
          file_states[lastOp.selection][i].file_state =
              IF OnDiskChanged(lastOp.fs, file_states[lastOp.selection][i].file_name)
              THEN STALE ELSE FRESH

\* C14 witness: of two members that were not STALE, flag_unchanged has made
\* the one with the changed mtime STALE and the other FRESH.
C14_Witness ==
    /\ lastOp.op = "flag_unchanged" /\ lastOp.check_mtime
    /\ Len(lastOp.before) = 2
    /\ \A i \in 1..2 : lastOp.before[i].file_state # STALE
    /\ \E i, j \in 1..2 :
          /\ OnDiskChanged(lastOp.fs, lastOp.before[i].file_name)
          /\ OnDiskCurrent(lastOp.fs, lastOp.before[j].file_name)
          /\ file_states[lastOp.selection][i].file_state = STALE
          /\ file_states[lastOp.selection][j].file_state = FRESH

Checked(fs, F) == fs[F].exists /\ get_mtime(F) # None

\* C15: during flag_unchanged(check_mtime=True), a member that exists on
\* disk and has a recorded mtime becomes STALE when the mtime lookup fails
\* as unreadable and FRESH when the format is unrecognized; the call goes on
\* and the other such members get the state their own lookup gives.
C15_FlagProviderErrors ==
    (lastOp.op = "flag_unchanged" /\ lastOp.check_mtime) =>
        \A i \in 1..Len(file_states[lastOp.selection]) :
            LET F == file_states[lastOp.selection][i].file_name
                state == file_states[lastOp.selection][i].file_state
            IN  Checked(lastOp.fs, F) =>
                    /\ lastOp.fs[F].provider = "FileLoadError" => state = STALE
                    /\ lastOp.fs[F].provider = "UnknownFormat" => state = FRESH
                    /\ OnDiskCurrent(lastOp.fs, F) => state = FRESH
                    /\ OnDiskChanged(lastOp.fs, F) => state = STALE

\* C15 witness: one flag_unchanged call has met an unreadable member and a
\* member of unrecognized format, and has changed the state of both.
C15_Witness ==
    /\ lastOp.op = "flag_unchanged" /\ lastOp.check_mtime
    /\ Len(lastOp.before) = 2
    /\ \E i, j \in 1..2 :
          /\ Checked(lastOp.fs, lastOp.before[i].file_name)
          /\ Checked(lastOp.fs, lastOp.before[j].file_name)
          /\ lastOp.fs[lastOp.before[i].file_name].provider = "FileLoadError"
          /\ lastOp.fs[lastOp.before[j].file_name].provider = "UnknownFormat"
          /\ lastOp.before[i].file_state # STALE
          /\ lastOp.before[j].file_state # FRESH
          /\ file_states[lastOp.selection][i].file_state = STALE
          /\ file_states[lastOp.selection][j].file_state = FRESH

\* C16: flag_unchanged sets a member to STALE whenever the catalog records
\* no mtime for it or the file is missing on disk, for both values of
\* check_mtime and whatever the format provider would report.
C16_FlagMissingStale ==
    lastOp.op = "flag_unchanged" =>
        \A i \in 1..Len(file_states[lastOp.selection]) :
            LET F == file_states[lastOp.selection][i].file_name
            IN  (get_mtime(F) = None \/ ~lastOp.fs[F].exists)
                    => file_states[lastOp.selection][i].file_state = STALE

StaleMembers(rows) ==
    {rows[i].file_name : i \in {j \in 1..Len(rows) : rows[j].file_state = STALE}}

\* C17: undig_grouped(skip_unchanged=True) yields a group for exactly the
\* members whose state is STALE; undig_grouped(skip_unchanged=False) yields
\* a group for every member whatever its state.
C17_SkipUnchanged ==
    lastOp.op = "undig_grouped" =>
        LET expected == IF lastOp.skip_unchanged
                        THEN StaleMembers(file_states[lastOp.selection])
                        ELSE Members(file_states[lastOp.selection])
        IN  /\ {lastOp.result[i][1] : i \in 1..Len(lastOp.result)} = expected
            /\ Len(lastOp.result) = Cardinality(expected)

\* C17 witness: undig_grouped(skip_unchanged=True) has run on a selection
\* with a STALE member and a member that is not STALE.
C17_Witness ==
    /\ lastOp.op = "undig_grouped" /\ lastOp.skip_unchanged
    /\ Len(lastOp.result) = 1
    /\ \E i, j \in 1..Len(file_states[lastOp.selection]) :
          /\ file_states[lastOp.selection][i].file_state = STALE
          /\ file_states[lastOp.selection][j].file_state # STALE

GroupNames(rows) ==
    LET groups == undig_grouped(rows, FALSE)
    IN  [i \in 1..Len(groups) |-> groups[i][1]]

IsPrefix(s, t) == Len(s) <= Len(t) /\ \A i \in 1..Len(s) : s[i] = t[i]

\* The readers give one entry per member, in one and the same order, with
\* the nuts and the mtime the catalog holds for the member.
ReadersAgree(name) ==
    \E groups \in {undig_grouped(file_states[name], FALSE)} :
    \E rows \in {iter_mtimes(file_states[name])} :
    \E mtimes \in {SelectionGetMtimes(file_states[name])} :
        /\ Len(groups) = Len(file_states[name])
        /\ Len(rows) = Len(file_states[name])
        /\ Len(mtimes) = Len(file_states[name])
        /\ {groups[i][1] : i \in 1..Len(groups)} = Members(file_states[name])
        /\ \A i \in 1..Len(groups) :
              /\ groups[i][2] = undig(groups[i][1])
              /\ mtimes[i] = get_mtime(groups[i][1])
              /\ rows[i][3] = get_mtime(groups[i][1])
              /\ rows[i][1] \in {None, Some(groups[i][1])}

\* C18: undig_grouped, iter_mtimes and Selection.get_mtimes return one entry
\* per member in the order in which the members were added, across several
\* add calls (the entries of the members added later follow those of the
\* members added before), with an empty nut list or an absent mtime for a
\* member the catalog does not know.
C18_InsertionOrder ==
    /\ \A name \in Range(selections) : ReadersAgree(name)
    /\ lastOp.op = "selection_add" =>
          IsPrefix(GroupNames(lastOp.before),
                   GroupNames(file_states[lastOp.selection]))

\* C18 witness: a second add call has brought a member with nuts into a
\* selection whose first member the catalog does not know.
C18_Witness ==
    /\ lastOp.op = "selection_add" /\ ~lastOp.raised
    /\ Len(lastOp.before) = 1
    /\ Len(file_states[lastOp.selection]) = 2
    /\ undig(file_states[lastOp.selection][1].file_name) = {}
    /\ get_mtime(file_states[lastOp.selection][1].file_name) = None
    /\ undig(file_states[lastOp.selection][2].file_name) # {}

\* The names the threads hold or have been given: a thread past the format
\* statement holds the name it has formatted.
NamesHeld == {t \in Threads : threads[t].pc \in {"load", "store", "release"}}

\* C19: for any interleaving of threads creating selections, the names
\* generated are pairwise distinct (those returned, and those held by the
\* threads still inside make_unique_name), also after a selection was
\* deleted, and the counter behind them only increases.
C19_UniqueNames ==
    /\ [](/\ NoRepeat(issued)
          /\ \A t \in NamesHeld : threads[t].name \notin Range(issued)
          /\ \A t, u \in NamesHeld : t # u => threads[t].name # threads[u].name)
    /\ [][icount' >= icount]_vars

\* C19 witness: two names were issued, the second to another thread than the
\* first, after the selection holding the first was deleted.
C19_Witness ==
    /\ Len(issued) = 2
    /\ lastOp.op = "delete"
    /\ selections = <<>>
    /\ \E t \in Threads \ {Owner} : threads[t].pc = "create"

TablesOf(name) == {tt \in temp_tables : tt[1] = name}

\* C20: in every reachable state the list of registered selections holds,
\* each exactly once, the selections created on the catalog and not yet
\* deleted: each registered selection has its file-state table, a nuts table
\* belongs to a registered selection, the list changes only by a creation
\* appending a new name or by delete() removing one, and delete() drops the
\* private tables of the selection (for a temporal index both) and removes
\* its registry entry.
C20_Registry ==
    /\ [](/\ NoRepeat(selections)
          /\ \A name \in SelectionNames :
                /\ name \in Range(selections) <=> <<name, "file_states">> \in temp_tables
                /\ <<name, "nuts">> \in temp_tables => name \in Range(selections)
          /\ lastOp.op = "delete" =>
                /\ lastOp.selection \notin Range(selections)
                /\ TablesOf(lastOp.selection) = {})
    /\ [][\/ selections' = selections /\ temp_tables' = temp_tables
          \/ \E name \in SelectionNames \ Range(selections) :
                /\ selections' = Append(selections, name)
                /\ temp_tables' \in
                      {temp_tables \cup {<<name, "file_states">>},
                       temp_tables \cup {<<name, "file_states">>, <<name, "nuts">>}}
          \/ \E name \in Range(selections) :
                /\ lastOp'.op = "delete" /\ lastOp'.selection = name
                /\ Range(selections') = Range(selections) \ {name}
                /\ temp_tables' = temp_tables \ TablesOf(name)]_vars

\* C20 witness: a temporal index was deleted while a plain selection created
\* after it stays registered.
C20_Witness ==
    /\ lastOp.op = "delete" /\ lastOp.squirrel
    /\ Len(selections) = 1
    /\ selections[1] > lastOp.selection
    /\ selections[1] \notin Squirrels

\* The (kind, decomposed codes) pairs among the nuts of the private index.
PrivateCodes(name) ==
    {<<kind_codes[r.kind_codes_id].kind, SplitCodes(kind_codes[r.kind_codes_id].codes)>> :
        r \in sq_nuts[name]}

\* C21: iter_codes(kind) on a temporal index yields each (kind, decomposed
\* codes) pair that occurs among the nuts of its private index exactly once,
\* no pair that occurs only outside the selection or that no nut references
\* any more, and only pairs of the given kind when kind is not None.
C21_IterCodes ==
    lastOp.op = "iter_codes" =>
        /\ NoRepeat(lastOp.result)
        /\ Range(lastOp.result) =
              {p \in PrivateCodes(lastOp.selection) :
                  lastOp.kind = NoneVal \/ p[1] = lastOp.kind}

\* C22: tspan() returns (the minimum tmin_seconds, the maximum tmax_seconds)
\* over the nuts of the private table of the temporal index only, and
\* (absent, absent) when the private table is empty.
C22_Tspan ==
    lastOp.op = "tspan" =>
        \E mine \in {sq_nuts[lastOp.selection]} :
            IF mine = {} THEN lastOp.result = <<None, None>>
            ELSE /\ \E r \in mine : lastOp.result[1] = Some(r.tmin_seconds)
                 /\ \E r \in mine : lastOp.result[2] = Some(r.tmax_seconds)
                 /\ \A r \in mine : /\ lastOp.result[1][1] <= r.tmin_seconds
                                    /\ lastOp.result[2][1] >= r.tmax_seconds

\* C22 witness: tspan on a temporal index that holds the short nut of one
\* file while the catalog holds a longer nut of a file outside the selection.
C22_Witness ==
    /\ lastOp.op = "tspan"
    /\ lastOp.result = <<Some(0), Some(0)>>
    /\ \E r \in nuts : r.tmax_seconds = 3

\* C23: commit() flushes the store exactly when at least one non-empty dig
\* has run since the previous commit (or since open): a commit flushes iff
\* writes of a dig are pending, and after a commit no write of an earlier dig
\* is still pending.
C23_CommitFlushes ==
    lastOp.op = "commit" =>
        /\ lastOp.flushed <=> lastOp.pending
        /\ ~uncommitted

\* The (format, mtime) of the file row of F.
FileRow(F) == {<<f.file_format, f.file_mtime>> : f \in {g \in files : g.file_name = F}}

InputNames(input) == {input[i].file_name : i \in 1..Len(input)}

\* C24: a dig call changes only the files named in its input: for every
\* file_name that does not occur in the input nuts, its file row (format,
\* mtime) and the nuts undig returns for it are the same before and after
\* the call, also when one call carries nuts of several files.
C24_DigFrame ==
    [][\A input \in FrameInputs :
          Dig(input) =>
              \A F \in FrameFiles \ InputNames(input) :
                  /\ FileRow(F)' = FileRow(F)
                  /\ undig(F)' = undig(F)]_vars

\* C24 witness: a dig call has replaced one of three files while the two
\* other files keep their rows and their nuts.
C24_Witness ==
    /\ lastOp.op = "dig" /\ lastOp.ok /\ lastOp.replaced
    /\ Cardinality(files) = 3
    /\ \A f \in files : undig(f.file_name) # {}

\* C25: add, flag_unchanged and delete on one selection (plain or temporal
\* index) never change the files, nuts or kind-code entries of the catalog,
\* and never change the members, states or private nuts of another selection
\* registered on the same catalog, which stays registered.
C25_SelectionFrame ==
    [][lastOp'.op \in {"selection_add", "squirrel_add", "flag_unchanged", "delete"} =>
          /\ catalog' = catalog
          /\ \A other \in Range(selections) \ {lastOp'.selection} :
                /\ other \in Range(selections')
                /\ TablesOf(other)' = TablesOf(other)
                /\ file_states'[other] = file_states[other]
                /\ sq_nuts'[other] = sq_nuts[other]]_vars

\* C25 witness: a selection was deleted while a temporal index with an
\* INDEXED member and private nuts stays registered on the same catalog.
C25_Witness ==
    /\ lastOp.op = "delete"
    /\ \E other \in Range(selections) :
          /\ other # lastOp.selection
          /\ sq_nuts[other] # {}
          /\ file_states[other] # <<>>
          /\ AllIndexed(file_states[other])

\* C26: in every reachable state each member's state is one of STALE (0),
\* FRESH (1), INDEXED (2), and a member of a plain selection (one that is not
\* a temporal index) is never INDEXED.
C26_StateValues ==
    \A name \in Range(selections) :
        \A i \in 1..Len(file_states[name]) :
            /\ file_states[name][i].file_state \in {STALE, FRESH, INDEXED}
            /\ name \notin Squirrels => file_states[name][i].file_state # INDEXED

\* C26 witness: flag_unchanged has left a plain selection with a FRESH and a
\* STALE member.
C26_Witness ==
    /\ lastOp.op = "flag_unchanged"
    /\ lastOp.selection \in Range(selections) \ Squirrels
    /\ \E i, j \in 1..Len(file_states[lastOp.selection]) :
          /\ file_states[lastOp.selection][i].file_state = FRESH
          /\ file_states[lastOp.selection][j].file_state = STALE

\* C27: in every reachable catalog state at most one file row exists per
\* file_name and at most one nut exists per (owning file, file_segment,
\* file_element), also after a single dig call whose input carries the same
\* file_name with two different mtimes or formats.
C27_UniqueRows ==
    /\ \A f, g \in files : f.file_name = g.file_name => f = g
    /\ \A f, g \in files : f.rowid = g.rowid => f = g
    /\ \A r, q \in nuts : SamePrimaryKey(r, q) => r = q

\* C27 witness: the latest dig call naming a file carried it with two
\* formats, and the file has its one row and a nut.
C27_Witness ==
    /\ lastOp.op = "dig" /\ lastOp.ok
    /\ \E F \in FileNames :
          /\ \E m, n \in dug[F] : m.file_format # n.file_format
          /\ Cardinality({f \in files : f.file_name = F}) = 1
          /\ \E f \in files, r \in nuts : f.file_name = F /\ r.file_id = f.rowid

RowDuration(r) ==
    Duration(r.tmin_seconds, r.tmin_offset, r.tmax_seconds, r.tmax_offset)

\* Edge k of the ladder in the unit of Duration (half seconds).
Edge(k) == 2 * tscale_edges[k]

\* C28: kscale depends on a nut's duration only: it is the smallest ladder
\* index whose edge is strictly greater than tmax - tmin, and the overflow
\* index (the number of edges) when no edge is greater; a nut whose duration
\* equals edge i exactly is in bucket i + 1, for every edge i.
C28_KscaleLadder ==
    /\ \A r \in nuts :
          /\ r.kscale \in 0..Len(tscale_edges)
          /\ \A k \in 1..Len(tscale_edges) :
                /\ k <= r.kscale => Edge(k) <= RowDuration(r)
                /\ k = r.kscale + 1 => Edge(k) > RowDuration(r)
                /\ RowDuration(r) = Edge(k) => r.kscale = k
    /\ \A r, q \in nuts : RowDuration(r) = RowDuration(q) => r.kscale = q.kscale

\* C28 witness: the catalog holds a nut whose duration is the last edge of
\* the ladder and a nut whose duration is the first edge and that does not
\* start at 0.
C28_Witness ==
    /\ \E r \in nuts : RowDuration(r) = Edge(Len(tscale_edges))
    /\ \E r \in nuts : RowDuration(r) = Edge(1) /\ r.tmin_seconds # 0

IndexedMembers(rows) ==
    {rows[i].file_name : i \in {j \in 1..Len(rows) : rows[j].file_state = INDEXED}}

\* C29: in every reachable state of a temporal index, the private nuts table
\* holds for each INDEXED member exactly the nuts the catalog currently
\* stores for that file (none when the catalog has no such file), for every
\* order of add and dig calls.
C29_IndexedInSync ==
    \A name \in Squirrels :
        /\ StoredNutRows(IndexedMembers(file_states[name])) \subseteq sq_nuts[name]
        /\ AllIndexed(file_states[name]) =>
              sq_nuts[name] = StoredNutRows(Members(file_states[name]))

\* The members that are not INDEXED.
UnindexedMembers(rows) == Members(rows) \ IndexedMembers(rows)

\* C30: in every reachable state of a temporal index, a member whose state is
\* STALE or FRESH has none of its nuts in the private nuts table (so that
\* _update_nuts never inserts a nut that is already present), after any
\* sequence of add and flag_unchanged calls.
C30_UnindexedAbsent ==
    \A name \in Squirrels :
        StoredNutRows(UnindexedMembers(file_states[name])) \cap sq_nuts[name] = {}

C32_RowidKeepsName ==
    /\ \A p, q \in held : p[1] = q[1] => p[2] = q[2]
    /\ \A name \in Squirrels :
           \A fr \in JoinRows(files, sq_nuts[name], kind_codes) :
               \A p \in held : p[1] = fr[2].file_id => p[2] = fr[1].file_name

\* a file was dug again under a new row id after a Squirrel copied its nuts,
\* another file holds a row, and a private row still joins with table files
C32_Witness ==
    \E name \in Squirrels :
        /\ \E r \in sq_nuts[name] :
              /\ \A f \in files : f.rowid # r.file_id
              /\ \E p \in held, f \in files :
                    /\ p[1] = r.file_id
                    /\ f.file_name = p[2]
                    /\ f.rowid > r.file_id
        /\ \E f, g \in files : f.file_name # g.file_name
        /\ JoinRows(files, sq_nuts[name], kind_codes) # {}

\* C33: Selection.add and Squirrel.add are atomic per call: a call that
\* raises leaves the members of the selection, their states and the private
\* nuts table as they were before the call.
C33_AddAtomic ==
    [][(lastOp'.op \in {"selection_add", "squirrel_add"} /\ lastOp'.raised) =>
           /\ file_states'[lastOp'.selection] = file_states[lastOp'.selection]
           /\ sq_nuts'[lastOp'.selection] = sq_nuts[lastOp'.selection]]_vars

\* C34: get_mtimes(names) leaves files, nuts and kind_codes of the catalog
\* and the registered selections as they were before the call, for every
\* list of names: its scratch selection is disposed before the call ends.
C34_GetMtimesFrame ==
    [][lastOp'.op = "get_mtimes" =>
           /\ catalog' = catalog
           /\ selections' = selections
           /\ temp_tables' = temp_tables]_vars

====
